---- MODULE Spec2Model ----
(***************************************************************************)
(* Model of server.py: the TCG market-cap monitor and one-shot seller.     *)
(*                                                                         *)
(* Units.  Token amounts are whole token units: fetch_price divides both   *)
(* the lens quote and the total supply by 10^18 (Web3.from_wei), and the   *)
(* two divisions cancel in mon_per_token * total_supply.  USD amounts are  *)
(* tenths of a dollar, so that 125.40 is 1254.  Time is whole seconds and  *)
(* only the age of the cache (time.time() - fetched_at) is kept; it        *)
(* saturates at MON_PRICE_TTL, beyond which the code no longer             *)
(* distinguishes ages.                                                     *)
(***************************************************************************)
EXTENDS Integers, Sequences, FiniteSets, TLC

\* ---- program constants --------------------------------------------------
POLL_INTERVAL == 7
TCG_SELL_AT == 900000
MON_PRICE_TTL == 60
SELL_BACKOFF == 3
TOKENS == <<"TCG", "FIRE", "MONA">>

\* ---- bounds and input sets ----------------------------------------------
\* The wallet's transaction count is capped: at the cap no further
\* transaction is accepted by the node.
MaxNonce == 3
\* Cycles that failed all their attempts are counted up to this number.
MaxExhausted == 1
\* Prices the feeds can return, in tenths of a dollar (90.0 and 125.4).
FeedPrices == {900, 1254}
\* Lens buy quotes for ONE_MON, in token units.
AmountOuts == {0, 100, 1000}
\* totalSupply() results, in token units.
Supplies == {1000000}
\* balanceOf(WALLET) results seen by sell_all_tcg.
Balances == {0, 7}
\* Lens sell quotes (mon_out).
Quotes == {19, 200}

VARIABLES
  pc,             \* position of main()
  tcg_sold,       \* main: tcg_sold
  mon_usd,        \* main: mon_usd
  mon_usd_cache,  \* module global _mon_usd_cache, as [price, age, warm]
  idx,            \* position in TOKENS.items()
  mcap,           \* main: mcap, the last value assigned inside the for
                  \* loop (0 once the loop has ended: it is not read again)
  quote,          \* fetch_price: the lens quote and total supply that mcap
                  \* was computed from
  attempt,        \* main: attempt of the retry loop (0 outside it)
  inv,            \* locals and transactions of the last sell_all_tcg(),
                  \* kept until the next token is read
  chain_nonce,    \* the chain's transaction count of WALLET
  feed,           \* history: what the last get_mon_usd_price() call did
  read_failed,    \* history: symbols whose read raised in this cycle
  reads,          \* history: symbols whose read was started in this cycle
  cycle_calls,    \* history: sell_all_tcg() invocations in this cycle
  cycle_backoff,  \* history: seconds slept by time.sleep(3) in this cycle
  ever_hit,       \* history: some TCG reading was >= TCG_SELL_AT
  ever_invoked,   \* history: sell_all_tcg() was invoked at least once
  ever_tx,        \* history: kinds of transaction the program has sent
  exhausted       \* history: cycles that failed all their attempts

vars == <<pc, tcg_sold, mon_usd, mon_usd_cache, idx, mcap, quote, attempt, inv,
          chain_nonce, feed, read_failed, reads, cycle_calls, cycle_backoff,
          ever_hit, ever_invoked, ever_tx, exhausted>>

Min(a, b) == IF a < b THEN a ELSE b

\* Age of the cache after d more seconds.
Advance(cache, d) ==
  [cache EXCEPT !.age = Min(cache.age + d, MON_PRICE_TTL)]

\* ---- get_mon_usd_price ----------------------------------------------------
\* Variant: a populated cache is served when both sources fail.
get_mon_usd_price_stale(cache, primary, secondary) ==
  IF cache.age < MON_PRICE_TTL
  THEN [raised |-> FALSE, price |-> cache.price, cache |-> cache,
        primary |-> "skip", secondary |-> "skip"]
  ELSE IF primary.ok
  THEN [raised |-> FALSE, price |-> primary.price,
        cache |-> [price |-> primary.price, age |-> 0, warm |-> TRUE],
        primary |-> "ok", secondary |-> "skip"]
  ELSE IF secondary.ok
  THEN [raised |-> FALSE, price |-> secondary.price,
        cache |-> [price |-> secondary.price, age |-> 0, warm |-> TRUE],
        primary |-> "fail", secondary |-> "ok"]
  ELSE [raised |-> ~cache.warm, price |-> cache.price, cache |-> cache,
        primary |-> "fail", secondary |-> "fail"]

\* Variant: the TTL test is left out and the sources are always called.
get_mon_usd_price_always(cache, primary, secondary) ==
  IF primary.ok
  THEN [raised |-> FALSE, price |-> primary.price,
        cache |-> [price |-> primary.price, age |-> 0, warm |-> TRUE],
        primary |-> "ok", secondary |-> "skip"]
  ELSE IF secondary.ok
  THEN [raised |-> FALSE, price |-> secondary.price,
        cache |-> [price |-> secondary.price, age |-> 0, warm |-> TRUE],
        primary |-> "fail", secondary |-> "ok"]
  ELSE [raised |-> TRUE, price |-> 0, cache |-> cache,
        primary |-> "fail", secondary |-> "fail"]

\* primary, secondary: [ok, price], the outcome each source would give.
get_mon_usd_price(cache, primary, secondary) ==
  IF cache.age < MON_PRICE_TTL
  THEN [raised |-> FALSE, price |-> cache.price, cache |-> cache,
        primary |-> "skip", secondary |-> "skip"]
  ELSE IF primary.ok
  THEN [raised |-> FALSE, price |-> primary.price,
        cache |-> [price |-> primary.price, age |-> 0, warm |-> TRUE],
        primary |-> "ok", secondary |-> "skip"]
  ELSE IF secondary.ok
  THEN [raised |-> FALSE, price |-> secondary.price,
        cache |-> [price |-> secondary.price, age |-> 0, warm |-> TRUE],
        primary |-> "fail", secondary |-> "ok"]
  ELSE [raised |-> TRUE, price |-> 0, cache |-> cache,
        primary |-> "fail", secondary |-> "fail"]

\* ---- fetch_price ----------------------------------------------------------
\* Variant: the reference price is left out of the product.
fetch_price_noprice(amount_out, total_supply, usd) ==
  IF amount_out = 0 THEN 0 ELSE total_supply \div amount_out

\* mon_per_token * total_supply * mon_usd, with mon_per_token = 0 for a
\* zero quote.
fetch_price(amount_out, total_supply, usd) ==
  IF amount_out = 0 THEN 0 ELSE (total_supply * usd) \div amount_out

\* A market cap (in tenths of a dollar) that meets the trigger threshold.
Hit(cap) == cap >= TCG_SELL_AT * 10

\* Variants of the trigger condition: without the tcg_sold guard, with the
\* comparison reversed, giving up after an exhausted cycle, and with a
\* strict comparison.
ShouldSellAgain(symbol, sold, cap) ==
  symbol = "TCG" /\ cap >= TCG_SELL_AT * 10

ShouldSellBelow(symbol, sold, cap) ==
  symbol = "TCG" /\ ~sold /\ cap <= TCG_SELL_AT * 10

ShouldSellUnlessExhausted(symbol, sold, cap) ==
  symbol = "TCG" /\ ~sold /\ cap >= TCG_SELL_AT * 10 /\ exhausted = 0

ShouldSellStrict(symbol, sold, cap) ==
  symbol = "TCG" /\ ~sold /\ cap > TCG_SELL_AT * 10

\* The trigger condition of main().
ShouldSell(symbol, sold, cap) ==
  symbol = "TCG" /\ ~sold /\ cap >= TCG_SELL_AT * 10

\* ---- sell_all_tcg ---------------------------------------------------------
\* Variant: the division taken before the multiplication.
AmountOutMinDivFirst(mon_out) == (mon_out \div 100) * 95

\* amount_out_min = int(mon_out * 95 // 100)
AmountOutMin(mon_out) == (mon_out * 95) \div 100

NoInv == [balance |-> -1, mon_out |-> 0, amount_out_min |-> 0,
          approve_nonce |-> -1, sell_nonce |-> -1, sell_min |-> -1,
          approve_tx |-> "none", sell_tx |-> "none",
          quoted |-> FALSE, foreign |-> FALSE, result |-> "none"]

NoQuote == [amount_out |-> 0, total_supply |-> 0]

NoFeed == [primary |-> "skip", secondary |-> "skip", raised |-> FALSE,
           called |-> FALSE]

\* Variant: one attempt more.
FourAttempts == 1..4

\* for attempt in range(1, 4)
AttemptRange == 1..3

\* if attempt < 3: time.sleep(3)
BackoffAfter(a) == a < 3

SellPcs == {"sell_balance", "sell_quote", "sell_approve",
            "sell_approve_wait", "sell_send", "sell_wait"}

TypeOK ==
  /\ pc \in {"start", "exited", "refresh", "fetch", "sell_balance",
             "sell_quote", "sell_approve", "sell_approve_wait",
             "sell_send", "sell_wait", "sleep"}
  /\ tcg_sold \in BOOLEAN
  /\ mon_usd \in FeedPrices \cup {0}
  /\ mon_usd_cache.age \in 0..MON_PRICE_TTL
  /\ idx \in 1..Len(TOKENS)
  /\ quote \in [amount_out : AmountOuts, total_supply : Supplies \cup {0}]
  /\ attempt \in 0..(MaxNonce + 8)
  /\ chain_nonce \in 0..MaxNonce
  /\ exhausted \in 0..MaxExhausted

Init ==
  /\ pc = "start"
  /\ tcg_sold = FALSE
  /\ mon_usd = 0
  /\ mon_usd_cache = [price |-> 0, age |-> MON_PRICE_TTL, warm |-> FALSE]
  /\ idx = 1
  /\ mcap = 0
  /\ quote = NoQuote
  /\ attempt = 0
  /\ inv = NoInv
  /\ chain_nonce = 0
  /\ feed = NoFeed
  /\ read_failed = {}
  /\ reads = {}
  /\ cycle_calls = 0
  /\ cycle_backoff = 0
  /\ ever_hit = FALSE
  /\ ever_invoked = FALSE
  /\ ever_tx = {}
  /\ exhausted = 0

\* main(): the connectivity check and the initialisation before the loop.
Startup ==
  /\ pc = "start"
  /\ \E connected \in BOOLEAN :
       pc' = IF connected THEN "refresh" ELSE "exited"
  /\ UNCHANGED <<tcg_sold, mon_usd, mon_usd_cache, idx, mcap, quote, attempt, inv,
                 chain_nonce, feed, read_failed, reads, cycle_calls,
                 cycle_backoff, ever_hit, ever_invoked, ever_tx, exhausted>>

\* Variant: a failed refresh resets the price.
ResetOnFailure(last, r) == r.price

\* mon_usd after the try/except: the value returned, or the last known value
\* when get_mon_usd_price() raised.
LastKnown(last, r) == IF r.raised THEN last ELSE r.price

\* main(): the try/except around get_mon_usd_price() at the top of a cycle.
RefreshPrice ==
  /\ pc = "refresh"
  /\ \E pok \in BOOLEAN, sok \in BOOLEAN, pp \in FeedPrices, sp \in FeedPrices :
       LET r == get_mon_usd_price(mon_usd_cache,
                                  [ok |-> pok, price |-> pp],
                                  [ok |-> sok, price |-> sp])
       IN /\ mon_usd' = LastKnown(mon_usd, r)
          /\ mon_usd_cache' = r.cache
          /\ feed' = [primary |-> r.primary, secondary |-> r.secondary,
                      raised |-> r.raised, called |-> TRUE]
  /\ pc' = "fetch"
  /\ idx' = 1
  /\ UNCHANGED <<tcg_sold, mcap, quote, attempt, inv, chain_nonce, read_failed,
                 reads, cycle_calls, cycle_backoff, ever_hit, ever_invoked,
                 ever_tx, exhausted>>

\* The for loop over TOKENS.items(): where main() goes after a token.
NextTokenPc(i) == IF i < Len(TOKENS) THEN "fetch" ELSE "sleep"
NextTokenIdx(i) == IF i < Len(TOKENS) THEN i + 1 ELSE i

\* Variants: a read error ends the cycle; a read error ends the process.
AbortCycle(i) == "sleep"

ExitOnError(i) == "exited"

\* The except clause of the for loop's body: the error is printed and the
\* loop goes on with the next token.
AfterReadErrorPc(i) == NextTokenPc(i)

\* main(): one iteration of the for loop up to the trigger decision:
\* fetch_price() and its except clause, and the if that starts the retry loop.
FetchPrice ==
  /\ pc = "fetch"
  /\ reads' = reads \cup {TOKENS[idx]}
  /\ inv' = NoInv
  /\ \E ok \in BOOLEAN, amount_out \in AmountOuts, total_supply \in Supplies :
       IF ~ok
       THEN /\ read_failed' = read_failed \cup {TOKENS[idx]}
            /\ pc' = AfterReadErrorPc(idx)
            /\ idx' = NextTokenIdx(idx)
            /\ mcap' = IF idx < Len(TOKENS) THEN mcap ELSE 0
            /\ quote' = IF idx < Len(TOKENS) THEN quote ELSE NoQuote
            /\ UNCHANGED <<attempt, ever_hit>>
       ELSE LET cap == fetch_price(amount_out, total_supply, mon_usd)
            IN /\ mcap' = IF idx < Len(TOKENS) THEN cap ELSE 0
               /\ quote' = IF idx < Len(TOKENS)
                           THEN [amount_out |-> amount_out,
                                 total_supply |-> total_supply]
                           ELSE NoQuote
               /\ ever_hit' = (ever_hit \/ (TOKENS[idx] = "TCG" /\ Hit(cap)))
               /\ read_failed' = read_failed
               /\ IF ShouldSell(TOKENS[idx], tcg_sold, cap)
                  THEN /\ pc' = "sell_balance"
                       /\ attempt' = 1
                       /\ idx' = idx
                  ELSE /\ pc' = NextTokenPc(idx)
                       /\ idx' = NextTokenIdx(idx)
                       /\ attempt' = attempt
  /\ UNCHANGED <<tcg_sold, mon_usd, mon_usd_cache, chain_nonce, feed,
                 cycle_calls, cycle_backoff, ever_invoked, ever_tx,
                 exhausted>>

\* sell_all_tcg() goes on to its next statement.
Proceed(newinv, nextpc) ==
  /\ inv' = newinv
  /\ pc' = nextpc
  /\ UNCHANGED <<tcg_sold, idx, attempt, mon_usd_cache, cycle_backoff,
                 exhausted>>

\* sell_all_tcg() returned: tcg_sold = True; break.
AttemptReturned(newinv) ==
  /\ inv' = [newinv EXCEPT !.result = "returned"]
  /\ tcg_sold' = TRUE
  /\ pc' = NextTokenPc(idx)
  /\ idx' = NextTokenIdx(idx)
  /\ attempt' = 0
  /\ UNCHANGED <<mon_usd_cache, cycle_backoff, exhausted>>

\* Variant: a retry resumes at the sell when the approval was confirmed.
RetryFromSell(i) ==
  IF i.approve_tx \in {"mined_ok", "mined_revert"}
  THEN "sell_send" ELSE "sell_balance"

\* The next iteration of the retry loop calls sell_all_tcg() anew.
RetryFrom(i) == "sell_balance"

\* sell_all_tcg() raised: the except clause of the retry loop, the next
\* iteration of the loop or its end.
AttemptFailed(newinv) ==
  /\ inv' = [newinv EXCEPT !.result = "raised"]
  /\ tcg_sold' = tcg_sold
  /\ IF BackoffAfter(attempt)
     THEN /\ mon_usd_cache' = Advance(mon_usd_cache, SELL_BACKOFF)
          /\ cycle_backoff' = cycle_backoff + SELL_BACKOFF
     ELSE UNCHANGED <<mon_usd_cache, cycle_backoff>>
  /\ IF attempt + 1 \in AttemptRange
     THEN /\ pc' = RetryFrom(newinv)
          /\ attempt' = attempt + 1
          /\ idx' = idx
          /\ exhausted' = exhausted
     ELSE /\ pc' = NextTokenPc(idx)
          /\ idx' = NextTokenIdx(idx)
          /\ attempt' = 0
          /\ exhausted' = Min(exhausted + 1, MaxExhausted)

\* Variant: no zero-balance check.
NothingToSellNever(b) == FALSE

\* if balance == 0: return
NothingToSell(b) == b = 0

\* sell_all_tcg(): balanceOf(WALLET) and the zero-balance return.
SellReadBalance ==
  /\ pc = "sell_balance"
  /\ cycle_calls' = cycle_calls + 1
  /\ ever_invoked' = TRUE
  /\ \E ok \in BOOLEAN, b \in Balances :
       IF ~ok THEN AttemptFailed(NoInv)
       ELSE IF NothingToSell(b) THEN AttemptReturned([NoInv EXCEPT !.balance = b])
       ELSE Proceed([NoInv EXCEPT !.balance = b], "sell_quote")
  /\ UNCHANGED <<mon_usd, mcap, quote, chain_nonce, feed, read_failed, reads,
                 ever_hit, ever_tx>>

\* sell_all_tcg(): the sell quote, amount_out_min, chain_id and deadline.
SellQuote ==
  /\ pc = "sell_quote"
  /\ \E ok \in BOOLEAN, q \in Quotes :
       IF ~ok THEN AttemptFailed([inv EXCEPT !.quoted = TRUE])
       ELSE Proceed([inv EXCEPT !.quoted = TRUE, !.mon_out = q,
                                !.amount_out_min = AmountOutMin(q)],
                    "sell_approve")
  /\ UNCHANGED <<mon_usd, mcap, quote, chain_nonce, feed, read_failed, reads,
                 cycle_calls, ever_hit, ever_invoked, ever_tx>>

\* sell_all_tcg(): build, sign and send the approval.
SellApprove ==
  /\ pc = "sell_approve"
  /\ \E ok \in BOOLEAN :
       IF ok /\ chain_nonce < MaxNonce
       THEN /\ Proceed([inv EXCEPT !.approve_nonce = chain_nonce,
                                   !.approve_tx = "sent"],
                       "sell_approve_wait")
            /\ ever_tx' = ever_tx \cup {"approve"}
       ELSE /\ AttemptFailed(inv)
            /\ ever_tx' = ever_tx
  /\ UNCHANGED <<mon_usd, mcap, quote, chain_nonce, feed, read_failed, reads,
                 cycle_calls, ever_hit, ever_invoked>>

\* What a receipt wait can observe for a transaction sent with nonce n: it
\* is mined (successfully or reverted) only while n is still the account's
\* next nonce; otherwise the wait times out.
WaitOutcomes(n) ==
  IF chain_nonce = n
  THEN {"mined_ok", "mined_revert", "timeout_mined", "timeout"}
  ELSE {"timeout"}

NonceAfter(outcome) ==
  IF outcome = "timeout" THEN chain_nonce ELSE chain_nonce + 1

\* Variant: a timed-out wait is swallowed.
WaitNeverRaises(o) == TRUE

\* wait_for_transaction_receipt returns the receipt of a mined transaction,
\* whatever its status, and raises when the wait times out.
WaitReturns(o) == o \in {"mined_ok", "mined_revert"}

\* What the program has seen of the transaction after the wait.
TxSeen(o) == IF o \in {"mined_ok", "mined_revert"} THEN o ELSE "timeout"

\* sell_all_tcg(): wait_for_transaction_receipt of the approval.
SellApproveWait ==
  /\ pc = "sell_approve_wait"
  /\ \E o \in WaitOutcomes(inv.approve_nonce) :
       /\ chain_nonce' = NonceAfter(o)
       /\ IF WaitReturns(o)
          THEN Proceed([inv EXCEPT !.approve_tx = TxSeen(o)], "sell_send")
          ELSE AttemptFailed([inv EXCEPT !.approve_tx = TxSeen(o)])
  /\ UNCHANGED <<mon_usd, mcap, quote, feed, read_failed, reads, cycle_calls,
                 ever_hit, ever_invoked, ever_tx>>

\* Variant: the nonce read for the approval is used again.
SellNonceReused(i, count) == i.approve_nonce

\* "nonce": w3.eth.get_transaction_count(WALLET) of the sell transaction.
SellNonce(i, count) == count

\* sell_all_tcg(): build, sign and send the sell.
SellSend ==
  /\ pc = "sell_send"
  /\ \E ok \in BOOLEAN :
       IF ok /\ chain_nonce < MaxNonce
       THEN /\ Proceed([inv EXCEPT !.sell_nonce = SellNonce(inv, chain_nonce),
                                   !.sell_min = inv.amount_out_min,
                                   !.sell_tx = "sent"],
                       "sell_wait")
            /\ ever_tx' = ever_tx \cup {"sell"}
       ELSE /\ AttemptFailed(inv)
            /\ ever_tx' = ever_tx
  /\ UNCHANGED <<mon_usd, mcap, quote, chain_nonce, feed, read_failed, reads,
                 cycle_calls, ever_hit, ever_invoked>>

\* sell_all_tcg(): wait_for_transaction_receipt of the sell, and the return.
SellWait ==
  /\ pc = "sell_wait"
  /\ \E o \in WaitOutcomes(inv.sell_nonce) :
       /\ chain_nonce' = NonceAfter(o)
       /\ IF WaitReturns(o)
          THEN AttemptReturned([inv EXCEPT !.sell_tx = TxSeen(o)])
          ELSE AttemptFailed([inv EXCEPT !.sell_tx = TxSeen(o)])
  /\ UNCHANGED <<mon_usd, mcap, quote, feed, read_failed, reads, cycle_calls,
                 ever_hit, ever_invoked, ever_tx>>

\* main(): time.sleep(POLL_INTERVAL) at the end of a cycle.
Sleep ==
  /\ pc = "sleep"
  /\ pc' = "refresh"
  /\ mon_usd_cache' = Advance(mon_usd_cache, POLL_INTERVAL)
  /\ inv' = NoInv
  /\ feed' = NoFeed
  /\ read_failed' = {}
  /\ reads' = {}
  /\ cycle_calls' = 0
  /\ cycle_backoff' = 0
  /\ UNCHANGED <<tcg_sold, mon_usd, idx, mcap, quote, attempt, chain_nonce,
                 ever_hit, ever_invoked, ever_tx, exhausted>>

\* Another holder of the key sends a transaction from WALLET while
\* sell_all_tcg() is running (at any other time the program does not look
\* at the account's transaction count).
ExternalSend ==
  /\ pc \in SellPcs \ {"sell_balance"}
  /\ chain_nonce < MaxNonce
  /\ chain_nonce' = chain_nonce + 1
  /\ inv' = [inv EXCEPT !.foreign = TRUE]
  /\ UNCHANGED <<pc, tcg_sold, mon_usd, mon_usd_cache, idx, mcap, quote, attempt,
                 feed, read_failed, reads, cycle_calls, cycle_backoff,
                 ever_hit, ever_invoked, ever_tx, exhausted>>

\* The steps of the program itself.
MainStep ==
  \/ Startup
  \/ RefreshPrice
  \/ FetchPrice
  \/ SellReadBalance
  \/ SellQuote
  \/ SellApprove
  \/ SellApproveWait
  \/ SellSend
  \/ SellWait
  \/ Sleep

Next == MainStep \/ ExternalSend

Spec == Init /\ [][Next]_vars

\* Every call of the program returns or raises within its timeout, so the
\* program always takes its next step.
FairSpec == Spec /\ WF_vars(MainStep)

\* ---- properties ---------------------------------------------------------

Symbols == {TOKENS[i] : i \in 1..Len(TOKENS)}

Mined == {"mined_ok", "mined_revert"}

\* C1: once sell_all_tcg() has returned and tcg_sold is set, no later step
\* invokes sell_all_tcg() or sends a transaction, whatever the later
\* readings of TCG are, and tcg_sold is never reset.
C1_AtMostOnceSell ==
  [][tcg_sold => /\ tcg_sold'
                 /\ pc' \notin SellPcs
                 /\ cycle_calls' <= cycle_calls
                 /\ ever_tx' = ever_tx]_vars

\* A later cycle reads TCG at or above the threshold after the sale.
C1_Witness ==
  /\ tcg_sold /\ cycle_calls = 0
  /\ pc = "fetch" /\ idx = 2
  /\ "TCG" \notin read_failed /\ Hit(mcap)

\* C2: as long as no reading of TCG has reached TCG_SELL_AT, sell_all_tcg()
\* has never been invoked and no approval or sell transaction has been sent.
C2_NoSellBelowThreshold ==
  ~ever_hit => /\ ~ever_invoked
               /\ ever_tx = {}
               /\ cycle_calls = 0
               /\ pc \notin SellPcs

\* A second or later cycle has read TCG below the threshold with a non-zero
\* market cap.
C2_Witness ==
  /\ ~ever_hit /\ pc = "fetch" /\ idx = 2
  /\ "TCG" \notin read_failed /\ mcap > 0
  /\ mon_usd_cache.warm /\ mon_usd_cache.age > 0

\* C3 as stated: tcg_sold becomes True only after the sell transaction of
\* that invocation has been sent and confirmed, on every path.
C3_SoldOnlyAfterSellConfirmed ==
  [][(~tcg_sold /\ tcg_sold') => inv'.sell_tx \in Mined]_vars

\* C3 (amended): tcg_sold becomes True only when sell_all_tcg() has returned
\* in that step, and it returns either after the receipt wait of its sell
\* transaction has returned, or on a zero balance with no transaction sent.
C3_SoldOnlyAfterReturn ==
  [][(~tcg_sold /\ tcg_sold') =>
       /\ inv'.result = "returned"
       /\ \/ inv'.sell_tx \in Mined /\ inv'.approve_tx \in Mined
          \/ /\ inv'.balance = 0
             /\ inv'.approve_tx = "none" /\ inv'.sell_tx = "none"]_vars

\* The sale has just been recorded after a confirmed sell transaction.
C3_Witness ==
  tcg_sold /\ inv.result = "returned" /\ inv.sell_tx \in Mined

\* C4: when sell_all_tcg() reads a balance of 0 it requests no quote, sends
\* no approval and no sell transaction, and returns without raising.
C4_ZeroBalanceNoOp ==
  inv.balance = 0 => /\ inv.result = "returned"
                     /\ ~inv.quoted
                     /\ inv.approve_tx = "none"
                     /\ inv.sell_tx = "none"
                     /\ pc \notin SellPcs

\* A zero balance has been read on a later attempt of the cycle.
C4_Witness ==
  inv.balance = 0 /\ cycle_calls = 2

\* C5: the amountOutMin of a sell transaction is floor(Q * 95 / 100) for
\* the quoted output Q, and never exceeds Q.
C5_SlippageFloor ==
  inv.sell_tx # "none" =>
    /\ inv.sell_min * 100 <= inv.mon_out * 95
    /\ inv.mon_out * 95 < (inv.sell_min + 1) * 100
    /\ inv.sell_min <= inv.mon_out

\* A sell has been sent for a quote whose 95% is not an integer.
C5_Witness ==
  inv.sell_tx # "none" /\ inv.mon_out = 19 /\ inv.sell_min = 18

\* C6: in one cycle sell_all_tcg() is invoked at most 3 times; a success on
\* attempt k ends the sequence with k invocations, tcg_sold set and k-1
\* back-offs of 3 seconds; three failures end it with 2 back-offs.
C6_BoundedInnerRetry ==
  /\ cycle_calls <= 3
  /\ pc \in SellPcs =>
       /\ cycle_backoff = 3 * (attempt - 1)
       /\ cycle_calls = IF pc = "sell_balance" THEN attempt - 1 ELSE attempt
  /\ (cycle_calls > 0 /\ pc \notin SellPcs) =>
       IF tcg_sold
       THEN cycle_backoff = 3 * (cycle_calls - 1)
       ELSE cycle_calls = 3 /\ cycle_backoff = 6
  /\ (inv.result = "returned") => (tcg_sold /\ pc \notin SellPcs)

\* Attempts 1 and 2 failed and attempt 3 sold.
C6_Witness ==
  /\ tcg_sold /\ cycle_calls = 3 /\ cycle_backoff = 6
  /\ inv.result = "returned" /\ inv.sell_tx \in Mined

\* C7: a cycle whose last attempt fails leaves tcg_sold False and goes on
\* with the loop; and whatever cycles have failed before, a reading of TCG
\* at or above the threshold starts a new sequence at attempt 1.
C7_UnboundedOuterRetry ==
  [][/\ (pc \in SellPcs /\ pc' \notin SellPcs /\ inv'.result = "raised") =>
          (~tcg_sold' /\ pc' = "fetch" /\ idx' = 2)
     /\ (/\ "TCG" \notin reads /\ "TCG" \in reads'
         /\ "TCG" \notin read_failed' /\ Hit(mcap') /\ ~tcg_sold) =>
          (pc' = "sell_balance" /\ attempt' = 1 /\ cycle_calls' = 0)]_vars

\* A new sequence starts after as many exhausted cycles as are counted.
C7_Witness ==
  /\ exhausted = MaxExhausted
  /\ pc = "sell_balance" /\ attempt = 1 /\ cycle_calls = 0

\* C8 as stated: get_mon_usd_price() raises only on a cold cache; with a
\* populated cache and both sources failing nothing is raised.
C8_RaisesOnlyWhenCold ==
  feed.raised => ~mon_usd_cache.warm

\* C8 (amended): get_mon_usd_price() raises exactly when the cache is not
\* younger than the TTL (cold or stale) and both sources fail; the cache and
\* main()'s mon_usd are then left as they were.
C8_RaisesWhenNotFresh ==
  [][(pc = "refresh" /\ pc' = "fetch") =>
       /\ feed'.raised <=> /\ mon_usd_cache.age >= MON_PRICE_TTL
                           /\ feed'.primary = "fail"
                           /\ feed'.secondary = "fail"
       /\ (mon_usd_cache.age >= MON_PRICE_TTL) <=> (feed'.primary # "skip")
       /\ feed'.raised =>
            (mon_usd_cache' = mon_usd_cache /\ mon_usd' = mon_usd)]_vars

\* Both sources failed on a populated, stale cache.
C8_Witness ==
  /\ feed.raised /\ mon_usd_cache.warm
  /\ mon_usd = mon_usd_cache.price /\ mon_usd > 0

\* C9: every cycle reads every token, whichever reads failed and whatever
\* the sell sequence did, and a failed read of TCG starts no sell attempt.
C9_FailureIsolation ==
  /\ pc = "sleep" => reads = Symbols
  /\ pc = "fetch" => reads = {TOKENS[i] : i \in 1..(idx - 1)}
  /\ read_failed \subseteq reads
  /\ "TCG" \in read_failed => (cycle_calls = 0 /\ pc \notin SellPcs)

\* A cycle whose sell sequence was exhausted and whose FIRE read failed has
\* still read MONA.
C9_Witness ==
  /\ pc = "sleep" /\ cycle_calls = 3 /\ ~tcg_sold
  /\ "FIRE" \in read_failed /\ "MONA" \notin read_failed

\* C10: once the loop is entered, every cycle reaches its sleep and every
\* sleep is followed by a new cycle.
C10_LoopResilience ==
  /\ (pc = "refresh") ~> (pc = "sleep")
  /\ (pc = "sleep") ~> (pc = "refresh")

\* A cycle in which the price refresh, two reads and all three sell attempts
\* failed has reached its sleep.
C10_Witness ==
  /\ pc = "sleep" /\ feed.raised
  /\ read_failed = {"FIRE", "MONA"}
  /\ cycle_calls = 3 /\ ~tcg_sold

\* C11: a cycle whose price refresh failed is not skipped: the refresh
\* leaves mon_usd at the value of the most recent successful refresh, the
\* loop over the tokens is entered, every token has been read when the cycle
\* sleeps, and a TCG reading at or above the threshold computed from that
\* value still starts the sell sequence.
C11_RefreshFailureKeepsCycle ==
  /\ [][(pc = "refresh" /\ feed'.raised)
          => (mon_usd' = mon_usd /\ pc' = "fetch" /\ idx' = 1)]_vars
  /\ [][(feed.raised /\ "TCG" \notin reads /\ "TCG" \in reads'
          /\ "TCG" \notin read_failed' /\ ~tcg_sold /\ Hit(mcap'))
          => pc' = "sell_balance"]_vars
  /\ [](mon_usd = mon_usd_cache.price)
  /\ []((feed.raised /\ pc = "sleep") => reads = Symbols)

\* A cycle whose refresh failed has read every token and has run the sell
\* sequence on the last known price.
C11_Witness ==
  /\ pc = "sleep" /\ feed.raised /\ reads = Symbols
  /\ read_failed = {} /\ cycle_calls > 0 /\ mon_usd > 0

\* C12: within one invocation of sell_all_tcg() the sell is sent only from
\* the step that follows the returned receipt wait of that invocation's
\* approval; an invocation whose approval could not be sent or whose wait
\* timed out ends without a sell.
C12_SellAfterApproval ==
  /\ [](pc \in {"sell_send", "sell_wait"} => inv.approve_tx \in Mined)
  /\ [](inv.sell_tx # "none" => inv.approve_tx \in Mined)
  /\ [][(inv'.sell_tx = "sent" /\ inv.sell_tx # "sent")
          => (pc = "sell_send" /\ inv.approve_tx \in Mined)]_vars
  /\ [][(pc \in {"sell_approve", "sell_approve_wait"}
          /\ inv'.result = "raised")
          => (inv'.sell_tx = "none" /\ pc' \notin {"sell_send", "sell_wait"})]_vars

\* An invocation has ended on a timed-out approval wait without a sell.
C12_Witness ==
  /\ inv.result = "raised" /\ inv.approve_tx = "timeout"
  /\ inv.sell_tx = "none" /\ "sell" \notin ever_tx

\* C13: an attempt whose approval or sell was mined with a failure status,
\* or could not be submitted, counts as failed: it does not return normally,
\* it does not set tcg_sold, and the retry loop goes on to its next attempt
\* or leaves the sale to the next cycle.
C13_RevertedAttemptFails ==
  /\ [](inv.result = "returned"
        => (inv.approve_tx # "mined_revert" /\ inv.sell_tx # "mined_revert"))
  /\ [][(pc \in SellPcs /\ pc' \notin SellPcs
          /\ (inv'.approve_tx = "mined_revert"
              \/ inv'.sell_tx = "mined_revert"))
          => (tcg_sold' = tcg_sold /\ inv'.result = "raised")]_vars
  /\ [][(pc \in {"sell_approve", "sell_send"} /\ inv'.result = "raised")
          => (tcg_sold' = tcg_sold
              /\ pc' = IF attempt < 3 THEN "sell_balance" ELSE "fetch")]_vars

\* C14: the nonce of the sell is the account's transaction count read at
\* the sell step, after the approval's receipt wait has returned, and is
\* never the approval's nonce; when nobody else has sent from the wallet
\* during the invocation it is the approval's nonce plus one.
C14_SellNonceFresh ==
  /\ [][(pc = "sell_send" /\ pc' = "sell_wait")
          => (inv'.sell_nonce = chain_nonce /\ inv.approve_tx \in Mined)]_vars
  /\ [](inv.sell_tx # "none"
        => /\ inv.sell_nonce > inv.approve_nonce
           /\ (~inv.foreign => inv.sell_nonce = inv.approve_nonce + 1))

\* A sell sent with the approval's nonce plus one in an invocation without
\* foreign transactions, after an earlier transaction had used nonce 0.
C14_Witness ==
  /\ pc = "sell_wait" /\ ~inv.foreign
  /\ inv.approve_nonce = 1 /\ inv.sell_nonce = 2

\* C15: a failure at any step of sell_all_tcg() ends the invocation at that
\* step, and no step is entered except from the step before it in the same
\* invocation: the only step a retry enters is the balance read, which
\* starts from fresh locals (no quote, no minimum output, no approval),
\* also when the failed attempt's approval had been confirmed.
C15_RetryRestartsFromBalance ==
  /\ [][(pc \in SellPcs /\ inv'.result = "raised" /\ pc' \in SellPcs)
          => (pc' = "sell_balance" /\ attempt' = attempt + 1)]_vars
  /\ [][(pc' # pc /\ pc' \in SellPcs \ {"sell_balance"})
          => /\ inv'.result = "none"
             /\ \/ pc = "sell_balance" /\ pc' = "sell_quote"
                \/ pc = "sell_quote" /\ pc' = "sell_approve"
                \/ pc = "sell_approve" /\ pc' = "sell_approve_wait"
                \/ pc = "sell_approve_wait" /\ pc' = "sell_send"
                \/ pc = "sell_send" /\ pc' = "sell_wait"]_vars
  /\ [][(pc = "sell_balance" /\ pc' = "sell_quote")
          => /\ ~inv'.quoted /\ inv'.amount_out_min = 0
             /\ inv'.approve_tx = "none" /\ inv'.sell_tx = "none"]_vars
  /\ [](pc \in {"sell_send", "sell_wait"}
        => (inv.quoted /\ inv.approve_tx \in Mined /\ inv.result = "none"))

\* The second attempt is about to start after an attempt whose approval was
\* confirmed and whose sell failed.
C15_Witness ==
  /\ pc = "sell_balance" /\ attempt = 2
  /\ inv.result = "raised" /\ inv.approve_tx \in Mined

\* C16: a step of the polling loop starts the sell sequence if and only if
\* it is a successful read of TCG, taken while tcg_sold is false, whose
\* market cap is at or above TCG_SELL_AT (equality included); a read of
\* FIRE or MONA starts no sell whatever its market cap.
C16_SellTriggerExact ==
  [][(pc \notin SellPcs)
       => /\ (pc' \in SellPcs) => (pc' = "sell_balance" /\ attempt' = 1)
          /\ (pc' \in SellPcs)
               <=> /\ pc = "fetch" /\ TOKENS[idx] = "TCG"
                   /\ "TCG" \notin read_failed'
                   /\ ~tcg_sold
                   /\ mcap' >= TCG_SELL_AT * 10]_vars

\* TCG was read at exactly the threshold and its sell sequence ran; FIRE was
\* then read at the threshold too and the loop went on to MONA.
C16_Witness ==
  /\ pc = "fetch" /\ idx = 3 /\ mon_usd = 900
  /\ read_failed = {} /\ cycle_calls = 3 /\ ~tcg_sold
  /\ mcap = TCG_SELL_AT * 10

\* C17: a call of get_mon_usd_price() made less than MON_PRICE_TTL seconds
\* after the last successful fetch returns the cached price, calls neither
\* source and leaves the cache alone; any other call asks the primary
\* source first and the secondary one exactly when the primary failed; the
\* cache is overwritten (price and time) exactly when one of them answered,
\* and is unchanged when both failed.
C17_CacheProtocol ==
  [][(pc = "refresh" /\ pc' = "fetch")
       => /\ (mon_usd_cache.warm /\ mon_usd_cache.age < MON_PRICE_TTL)
               => /\ feed'.primary = "skip" /\ feed'.secondary = "skip"
                  /\ ~feed'.raised
                  /\ mon_usd' = mon_usd_cache.price
                  /\ mon_usd_cache' = mon_usd_cache
          /\ ~(mon_usd_cache.warm /\ mon_usd_cache.age < MON_PRICE_TTL)
               => /\ feed'.primary \in {"ok", "fail"}
                  /\ (feed'.secondary # "skip") <=> (feed'.primary = "fail")
          /\ (feed'.primary = "ok" \/ feed'.secondary = "ok")
               => /\ mon_usd_cache'.price = mon_usd'
                  /\ mon_usd_cache'.age = 0
                  /\ mon_usd_cache'.warm
          /\ ~(feed'.primary = "ok" \/ feed'.secondary = "ok")
               => mon_usd_cache' = mon_usd_cache]_vars

\* A cache that had been filled in an earlier cycle has expired and has been
\* overwritten by the secondary source after the primary one failed.
C17_Witness ==
  /\ pc = "fetch" /\ idx = 1 /\ ever_hit
  /\ feed.primary = "fail" /\ feed.secondary = "ok"
  /\ mon_usd_cache = [price |-> 900, age |-> 0, warm |-> TRUE]

\* C18: the market cap of a successful read is total_supply * mon_usd /
\* amount_out (the product of 1 / amount_out, the supply and the reference
\* price, in tenths of a dollar, rounded down) when the quote is not zero,
\* and 0 when the quote is zero, which is an ordinary successful read that
\* starts no sell; with a price of 125.40, a quote of 1000 and a supply of
\* 1,000,000 it is 125,400, below TCG_SELL_AT, and starts no sell.
C18_MarketCapFormula ==
  /\ [](IF quote.amount_out = 0
        THEN mcap = 0
        ELSE /\ mcap * quote.amount_out <= quote.total_supply * mon_usd
             /\ quote.total_supply * mon_usd < (mcap + 1) * quote.amount_out)
  /\ []((mon_usd = 1254 /\ quote = [amount_out |-> 1000,
                                    total_supply |-> 1000000])
        => (mcap = 1254000 /\ mcap < TCG_SELL_AT * 10))
  /\ [][(pc = "fetch" /\ reads' # reads /\ TOKENS[idx] \notin read_failed'
          /\ idx < Len(TOKENS)
          /\ (quote'.amount_out = 0
              \/ (mon_usd = 1254 /\ quote'.amount_out = 1000)))
          => (pc' = "fetch" /\ ~Hit(mcap'))]_vars

\* TCG has been read at a price of 125.40 with a quote of 1000 and a supply
\* of 1,000,000: the market cap is 125,400 and the loop has gone on to FIRE.
C18_Witness ==
  /\ pc = "fetch" /\ idx = 2 /\ "TCG" \notin read_failed /\ ~tcg_sold
  /\ mon_usd = 1254
  /\ quote = [amount_out |-> 1000, total_supply |-> 1000000]
  /\ mcap = 1254000

\* C19: once a cycle has met the threshold and used up its three attempts,
\* the token stays triggered: in every later cycle in which TCG is read
\* while still unsold, the sell sequence is run again, whether or not that
\* cycle's market cap is at or above TCG_SELL_AT.
C19_TriggeredPersists ==
  [][(exhausted > 0 /\ ~tcg_sold /\ pc = "fetch" /\ TOKENS[idx] = "TCG"
       /\ "TCG" \in reads' /\ "TCG" \notin read_failed')
       => pc' = "sell_balance"]_vars

\* C20: as long as no fetch of the reference price has succeeded, mon_usd
\* is 0, every market cap computed is 0, no reading has met the threshold
\* and sell_all_tcg() has not been invoked; the sell sequence can start only
\* in a cycle at or after the first successful fetch.
C20_NoSellBeforeFirstPrice ==
  /\ [](~mon_usd_cache.warm
        => /\ mon_usd = 0 /\ mcap = 0
           /\ ~ever_hit /\ ~ever_invoked /\ ever_tx = {}
           /\ pc \notin SellPcs /\ ~tcg_sold)
  /\ [][(pc' \in SellPcs) => (mon_usd_cache.warm /\ mon_usd > 0)]_vars

\* No fetch of the reference price has succeeded yet, the last refresh
\* failed, and TCG has been read with a non-zero quote.
C20_Witness ==
  /\ ~mon_usd_cache.warm /\ feed.raised
  /\ pc = "fetch" /\ idx = 2 /\ "TCG" \notin read_failed
  /\ quote = [amount_out |-> 100, total_supply |-> 1000000]
  /\ mcap = 0

====
